---- MODULE Spec2Model ----
(***************************************************************************)
(* KSM AutoVideo Creator (src/app.py): the text helpers, the background    *)
(* selector and the build_video pipeline behind the "Generate Video"       *)
(* button, as state machines.                                              *)
(*                                                                         *)
(* Texts are sequences of one-symbol strings; " " is the whitespace        *)
(* symbol, every other symbol is a non-whitespace character.  A word of a  *)
(* generated narration is the single symbol "w<i>", so that the words of a *)
(* text are pairwise distinct and a lost, repeated or reordered word shows.*)
(* Durations are exact rationals [n, d] counted in tenths of a second      *)
(* (Python computes them in binary floating point).                        *)
(***************************************************************************)
EXTENDS Integers, Sequences, FiniteSets, TLC

VARIABLES
    \* ---- the widgets and secrets of one script run (app.py 23-52)
    OPENAI_API_KEY,     \* TRUE when the secret is configured
    PEXELS_API_KEY,     \* TRUE when the secret is configured
    title, content, topic_hint, target_duration,
    enable_captions, add_title_card, bgm_mix, logo_file,
    \* ---- the position of the generate handler and the locals of build_video
    pc, trimmed_text, audio_duration, bg_duration, out_dur, overlays,
    \* ---- what the handler did to its collaborators
    ttsCalls, searchCalls, downloads, renderCalls, tempFiles, raised, shown,
    \* ---- pick_background_url: the answers of the search service, in the order
    \* the searches consume them, and the URL returned
    pickLog, pickResult,
    \* ---- trim_to_duration applied to an argument, and to its own result
    trimArg, trimOnce, trimTwice

uiVars == <<OPENAI_API_KEY, PEXELS_API_KEY, title, content, topic_hint,
            target_duration, enable_captions, add_title_card, bgm_mix, logo_file>>
runVars == <<trimmed_text, audio_duration, bg_duration, out_dur, overlays>>
effectVars == <<ttsCalls, searchCalls, downloads, renderCalls, tempFiles, raised, shown>>
pickVars == <<pickLog, pickResult>>
trimVars == <<trimArg, trimOnce, trimTwice>>
vars == <<uiVars, pc, runVars, effectVars, pickVars, trimVars>>

None == "None"

-----------------------------------------------------------------------------
(* Python's str helpers on texts *)

Max(a, b) == IF a >= b THEN a ELSE b
Min(a, b) == IF a <= b THEN a ELSE b

IsSpace(c) == c = " "

RECURSIVE lstrip(_)
lstrip(s) == IF s = <<>> THEN s
             ELSE IF IsSpace(Head(s)) THEN lstrip(Tail(s)) ELSE s

RECURSIVE rstrip(_)
rstrip(s) == IF s = <<>> THEN s
             ELSE IF IsSpace(s[Len(s)]) THEN rstrip(SubSeq(s, 1, Len(s) - 1)) ELSE s

strip(s) == rstrip(lstrip(s))

\* str.split(): the maximal runs of non-whitespace symbols, in order
Indices(s) == [i \in 1..Len(s) |-> i]
WordStarts(s) ==
    SelectSeq(Indices(s), LAMBDA i : ~IsSpace(s[i]) /\ (i = 1 \/ IsSpace(s[i - 1])))
WordEnds(s) ==
    SelectSeq(Indices(s), LAMBDA i : ~IsSpace(s[i]) /\ (i = Len(s) \/ IsSpace(s[i + 1])))

split(s) ==
    LET starts == WordStarts(s)
        ends == WordEnds(s)
    IN  [k \in 1..Len(starts) |-> SubSeq(s, starts[k], ends[k])]

\* " ".join(words), by halves
RECURSIVE join(_)
join(words) ==
    IF words = <<>> THEN <<>>
    ELSE IF Len(words) = 1 THEN words[1]
    ELSE join(SubSeq(words, 1, Len(words) \div 2)) \o <<" ">>
         \o join(SubSeq(words, Len(words) \div 2 + 1, Len(words)))

\* the one-character string appended to a cut narration (U+2026)
Ellipsis == "ELLIPSIS"

-----------------------------------------------------------------------------
(* trim_to_duration (app.py 82-87), wps = 2.2 = WpsNum / WpsDen *)

MinWords == 35
WpsNum == 22
WpsDen == 10

\* int(target_sec * wps): the product is positive, so int() is the floor
max_words(target_sec) == Max(MinWords, (target_sec * WpsNum) \div WpsDen)

\* a variant that joins the ellipsis on as a word of its own
trim_to_duration_SpacedEllipsis(text, target_sec) ==
    LET words == split(strip(text))
    IN  IF Len(words) <= max_words(target_sec)
        THEN strip(text)
        ELSE join(SubSeq(words, 1, max_words(target_sec))) \o <<" ", Ellipsis>>

trim_to_duration(text, target_sec) ==
    LET words == split(strip(text))
    IN  IF Len(words) <= max_words(target_sec)
        THEN strip(text)
        ELSE join(SubSeq(words, 1, max_words(target_sec))) \o <<Ellipsis>>

-----------------------------------------------------------------------------
(* Generated texts: lead blanks, n distinct words sep blanks apart, trail blanks *)

Word(i) == "w" \o ToString(i)

Blanks(k) == [i \in 1..k |-> " "]

\* words 1..n, sep blanks between neighbours
WordsText(n, sep) ==
    IF n = 0 THEN <<>>
    ELSE [i \in 1..(n + (n - 1) * sep) |->
            IF (i - 1) % (sep + 1) = 0 THEN Word((i - 1) \div (sep + 1) + 1) ELSE " "]

MkText(lead, n, sep, trail) == Blanks(lead) \o WordsText(n, sep) \o Blanks(trail)

-----------------------------------------------------------------------------
(* The background selector: CURATED_BG, pexels_search_video, pick_background_url *)

CURATED_BG ==
    [lean |-> << "https://player.vimeo.com/external/357479265.sd.mp4",
                 "https://player.vimeo.com/external/214857965.sd.mp4" >>,
     process |-> << "https://player.vimeo.com/external/357478777.sd.mp4" >>,
     ai |-> << "https://player.vimeo.com/external/331695260.sd.mp4" >>,
     default |-> << "https://player.vimeo.com/external/357479265.sd.mp4" >>]

UpperCase == << "A", "B", "C", "D", "E", "F", "G", "H", "I", "J", "K", "L", "M",
                "N", "O", "P", "Q", "R", "S", "T", "U", "V", "W", "X", "Y", "Z" >>
LowerCase == << "a", "b", "c", "d", "e", "f", "g", "h", "i", "j", "k", "l", "m",
                "n", "o", "p", "q", "r", "s", "t", "u", "v", "w", "x", "y", "z" >>

LowerOf(c) ==
    IF \E k \in 1..Len(UpperCase) : UpperCase[k] = c
    THEN LowerCase[CHOOSE k \in 1..Len(UpperCase) : UpperCase[k] = c]
    ELSE c

\* str.lower(), by halves
RECURSIVE lower(_)
lower(s) ==
    IF s = <<>> THEN <<>>
    ELSE IF Len(s) = 1 THEN <<LowerOf(s[1])>>
    ELSE lower(SubSeq(s, 1, Len(s) \div 2)) \o lower(SubSeq(s, Len(s) \div 2 + 1, Len(s)))

\* k in query, for a non-empty k
Contains(query, k) ==
    \E i \in 1..(Len(query) - Len(k) + 1) : SubSeq(query, i, i + Len(k) - 1) = k

LeanKeywords ==
    { <<"l","e","a","n">>, <<"s","i","x"," ","s","i","g","m","a">>,
      <<"k","a","i","z","e","n">>, <<"d","m","a","i","c">>,
      <<"p","r","o","c","e","s","s">> }
AiKeywords ==
    { <<"a","i">>, <<"a","n","a","l","y","t","i","c","s">>, <<"d","a","t","a">>,
      <<"a","u","t","o","m","a","t","i","o","n">>, <<"m","i","n","i","n","g">> }

\* the three generic queries, each one opaque non-empty text
GenericQueries == << <<"abstract technology background">>, <<"minimal gradient">>,
                     <<"office workflow b-roll">> >>

\* Python truthiness of a link (a string or None) and of a text; an absent
\* topic hint (None) is the empty text: the code only ever tests it for truth
Truthy(url) == url # None /\ url # ""
TruthyText(s) == s # <<>>

\* a or b, on texts
Or(a, b) == IF TruthyText(a) THEN a ELSE b

\* sorted(files, key=width, reverse=True)[0]: the first file of the largest width
Widest(files) ==
    files[CHOOSE i \in 1..Len(files) :
            /\ \A j \in 1..Len(files) : files[j].width <= files[i].width
            /\ \A j \in 1..(i - 1) : files[j].width < files[i].width]

\* resp is what requests.get does for this query: it raises, or it answers
pexels_search_video(key, query, resp) ==
    IF ~key THEN None
    ELSE IF resp.kind = "raises" THEN None
    ELSE IF /\ resp.status_code = 200
            /\ resp.videos # <<>>
            /\ resp.videos[1].video_files # <<>>
         THEN Widest(resp.videos[1].video_files).link
         ELSE None

RECURSIVE SearchLoop_FirstOnly(_, _, _, _)
\* a variant that returns whatever the first search gives
SearchLoop_FirstOnly(key, qs, resps, calls) ==
    IF qs = <<>> THEN [url |-> None, calls |-> calls]
    ELSE IF ~TruthyText(Head(qs)) THEN SearchLoop_FirstOnly(key, Tail(qs), resps, calls)
    ELSE [url |-> pexels_search_video(key, Head(qs), Head(resps)), calls |-> calls + 1]

\* the for loop of pick_background_url over the queries qs; resps[1] answers the
\* next search issued.  [url, calls]: the hit (or None) and the searches issued
RECURSIVE SearchLoop(_, _, _, _)
SearchLoop(key, qs, resps, calls) ==
    IF qs = <<>> THEN [url |-> None, calls |-> calls]
    ELSE IF ~TruthyText(Head(qs)) THEN SearchLoop(key, Tail(qs), resps, calls)
    ELSE LET url == pexels_search_video(key, Head(qs), Head(resps))
         IN  IF Truthy(url) THEN [url |-> url, calls |-> calls + 1]
             ELSE SearchLoop(key, Tail(qs), Tail(resps), calls + 1)

Candidates(query) ==
    (IF \E k \in LeanKeywords : Contains(query, k)
     THEN CURATED_BG.lean \o CURATED_BG.process ELSE <<>>)
    \o (IF \E k \in AiKeywords : Contains(query, k) THEN CURATED_BG.ai ELSE <<>>)

Queries(t, hint) == <<hint, t>> \o GenericQueries

pick_background_url(key, t, c, hint, resps) ==
    LET query == lower(Or(hint, Or(t, Or(c, <<>>))))
        candidates == Candidates(query)
        found == IF key THEN SearchLoop(key, Queries(t, hint), resps, 0)
                 ELSE [url |-> None, calls |-> 0]
    IN  IF Truthy(found.url) THEN found
        ELSE [url |-> (IF candidates # <<>> THEN candidates ELSE CURATED_BG.default)[1],
              calls |-> found.calls]

\* ---- what the search service may answer
File(w, link) == [width |-> w, link |-> link]
Answer(status, videos) == [kind |-> "answers", status_code |-> status, videos |-> videos]
Video(files) == [video_files |-> files]

RespRaises == [kind |-> "raises"]
RespError == Answer(500, <<>>)
RespNoVideos == Answer(200, <<>>)
RespNoFiles == Answer(200, << Video(<<>>) >>)
RespNoLink == Answer(200, << Video(<< File(1920, None), File(640, "https://videos.pexels.com/sd.mp4") >>) >>)
RespHit == Answer(200, << Video(<< File(640, "https://videos.pexels.com/sd.mp4"),
                                   File(1920, "https://videos.pexels.com/hd.mp4"),
                                   File(1920, "https://videos.pexels.com/hd2.mp4") >>) >>)
RespHitOther == Answer(200, << Video(<< File(1280, "https://videos.pexels.com/other.mp4") >>),
                               Video(<< File(3840, "https://videos.pexels.com/second.mp4") >>) >>)

-----------------------------------------------------------------------------
(* Durations: exact rationals in tenths of a second *)

R(x) == [n |-> x, d |-> 1]
RLe(a, b) == a.n * b.d <= b.n * a.d
RLt(a, b) == a.n * b.d < b.n * a.d
REq(a, b) == a.n * b.d = b.n * a.d
RAdd(a, b) == IF a.d = b.d THEN [n |-> a.n + b.n, d |-> a.d]
              ELSE [n |-> a.n * b.d + b.n * a.d, d |-> a.d * b.d]

-----------------------------------------------------------------------------
(* build_video (app.py 205-312): the duration and the overlay steps *)

FloorSeconds == 300        \* max(audio.duration, 30)
TitleSeconds == 30         \* min(3, out_dur)
SegmentSpan == 25          \* out_dur // 2.5
MinSegments == 3
MinWordsPerSeg == 6
SegFloor == 14             \* 1.4
SegCap == 40               \* 4.0

\* a variant that forgets the cap by the background video's duration
ResolveDuration_NoBgCap(audio, target, bg) == Min(Max(audio, FloorSeconds), target * 10)

\* min(max(audio.duration, 30), float(target_duration), float(video_bg.duration))
ResolveDuration(audio, target, bg) == Min(Min(Max(audio, FloorSeconds), target * 10), bg)

BackgroundLayer(dur) ==
    [kind |-> "BackgroundVideo", start |-> R(0), duration |-> R(dur), audio |-> "narration"]

TitleLayer(dur) ==
    [kind |-> "TitleCard", start |-> R(0), duration |-> R(Min(TitleSeconds, dur))]

LogoLayer(dur) ==
    [kind |-> "Logo", start |-> R(0), duration |-> R(dur)]

total_words(words) == Max(1, Len(words))
approx_segments(dur) == Max(MinSegments, dur \div SegmentSpan)
words_per_seg(words, dur) == Max(MinWordsPerSeg, total_words(words) \div approx_segments(dur))

\* min(4.0, max(1.4, out_dur / approx_segments))
seg_dur(dur) ==
    [n |-> Min(SegCap * approx_segments(dur), Max(SegFloor * approx_segments(dur), dur)),
     d |-> approx_segments(dur)]

\* a variant whose slice runs one word too far
Slice_OneTooFar(words, i, k) == SubSeq(words, i + 1, Min(i + k + 1, Len(words)))

\* words[i:i+k] of a Python list, i counted from 0
Slice(words, i, k) == SubSeq(words, i + 1, Min(i + k, Len(words)))

\* the for loop of the captions step from index i and offset t on, over
\* words = trimmed_text.split(): the caption clips it appends when nothing raises
RECURSIVE CaptionLoop(_, _, _, _, _)
CaptionLoop(words, dur, i, t, acc) ==
    IF i >= total_words(words) THEN acc
    ELSE LET chunk == join(Slice(words, i, words_per_seg(words, dur)))
         IN  IF chunk = <<>> THEN acc
             ELSE LET clip == [kind |-> "Caption", start |-> t,
                               duration |-> seg_dur(dur), text |-> chunk]
                      t2 == RAdd(t, seg_dur(dur))
                  IN  IF RLe(R(dur), t2) THEN Append(acc, clip)
                      ELSE CaptionLoop(words, dur, i + words_per_seg(words, dur), t2,
                                       Append(acc, clip))

CaptionClips(text, dur) == CaptionLoop(split(text), dur, 0, R(0), <<>>)

-----------------------------------------------------------------------------
(* One script run: the widgets, then the handler of the generate button *)

SliderMin == 30
SliderMax == 90
SliderStep == 5

\* st.slider("Target Duration (sec)", 30, 90, 60, 5)
SliderValues == {t \in SliderMin..SliderMax : (t - SliderMin) % SliderStep = 0}

\* the slider positions, narration lengths (words) and media durations (tenths
\* of a second) the runs are drawn from
TargetChoices == {t \in SliderValues : t <= SliderMin + SliderStep \/ t = SliderMax}
WordCounts == {20, 80}
AudioDurations == {32, 455}
BackgroundDurations == {30, 310, 1200}

Titles == { <<>>, <<"L","e","a","n">> }
Contents == { <<>>, <<" ">> } \cup { MkText(0, n, 1, 0) : n \in WordCounts }

\* the answers the search service gives the requests of one run
PipelineAnswers == { <<RespRaises, RespHit, RespHit, RespHit, RespHit>> }

OptionalSteps == {"title", "logo", "captions", "music"}

\* before the handler runs: no local of build_video is set, nothing was called
NothingRun ==
    /\ trimmed_text = <<>> /\ audio_duration = 0 /\ bg_duration = 0 /\ out_dur = 0
    /\ overlays = <<>>
    /\ ttsCalls = 0 /\ searchCalls = 0 /\ downloads = 0 /\ renderCalls = 0
    /\ tempFiles = 0 /\ raised = {} /\ shown = ""

NothingPicked == pickLog = <<>> /\ pickResult = None

NothingTrimmed ==
    /\ trimArg = [text |-> <<>>, target_sec |-> SliderMin]
    /\ trimOnce = <<>> /\ trimTwice = <<>>

Init ==
    /\ OPENAI_API_KEY \in BOOLEAN
    /\ PEXELS_API_KEY \in BOOLEAN
    /\ title \in Titles
    /\ content \in Contents
    /\ topic_hint = <<>>
    /\ target_duration \in TargetChoices
    /\ enable_captions \in BOOLEAN
    /\ add_title_card \in BOOLEAN
    /\ bgm_mix \in BOOLEAN
    /\ logo_file \in BOOLEAN
    /\ pc = "idle"
    /\ NothingRun /\ NothingPicked /\ NothingTrimmed

\* a variant that only looks at the title
ButtonDisabled_TitleOnly == ~TruthyText(title)

\* st.button(..., disabled=not title or not content)
ButtonDisabled == ~TruthyText(title) \/ ~TruthyText(content)

\* app.py 315-328: the click, the credential check, and build_video up to the
\* call of the speech service (trim_to_duration on the stripped content)
Generate ==
    /\ pc = "idle"
    /\ IF ButtonDisabled
       THEN /\ pc' = "disabled"
            /\ UNCHANGED <<trimmed_text, shown>>
       ELSE IF ~OPENAI_API_KEY
       THEN /\ pc' = "stopped"
            /\ shown' = "OPENAI_API_KEY missing. Add it in Streamlit secrets."
            /\ UNCHANGED trimmed_text
       ELSE /\ pc' = "tts"
            /\ trimmed_text' = trim_to_duration(strip(content), target_duration)
            /\ UNCHANGED shown
    /\ UNCHANGED <<uiVars, audio_duration, bg_duration, out_dur, overlays,
                   ttsCalls, searchCalls, downloads, renderCalls, tempFiles, raised,
                   pickVars, trimVars>>

\* the exception reaches the handler's except: st.error(f"Error: {e}")
Fails(msg) ==
    /\ pc' = "failed"
    /\ shown' = msg

\* synthesize_speech_openai, app.py 137-153: the key check, mkstemp, and the
\* streaming call.  It succeeds (AudioFileClip then reads the duration), or
\* the SDK has no streaming API (no request is sent), or the service fails
SynthesizeStreaming ==
    /\ pc = "tts"
    /\ IF ~OPENAI_API_KEY
       THEN /\ Fails("Error: OPENAI_API_KEY missing. Add it in Streamlit secrets.")
            /\ UNCHANGED <<tempFiles, ttsCalls, audio_duration>>
       ELSE /\ tempFiles' = tempFiles + 1
            /\ \/ /\ ttsCalls' = ttsCalls + 1
                  /\ \E a \in AudioDurations : audio_duration' = a
                  /\ pc' = "bg"
               \/ /\ ttsCalls' = ttsCalls
                  /\ pc' = "tts_fallback"
                  /\ UNCHANGED audio_duration
               \/ /\ ttsCalls' = ttsCalls + 1
                  /\ pc' = "tts_fallback"
                  /\ UNCHANGED audio_duration
            /\ UNCHANGED shown
    /\ UNCHANGED <<uiVars, trimmed_text, bg_duration, out_dur, overlays,
                   searchCalls, downloads, renderCalls, raised, pickVars, trimVars>>

\* app.py 153-167: except Exception: the non-streaming call, whatever made the
\* streaming call fail
SynthesizeFallback ==
    /\ pc = "tts_fallback"
    /\ ttsCalls' = ttsCalls + 1
    /\ \/ /\ \E a \in AudioDurations : audio_duration' = a
          /\ pc' = "bg"
          /\ UNCHANGED shown
       \/ /\ Fails("Error: TTS failed: empty response body")
          /\ UNCHANGED audio_duration
       \/ /\ Fails("Error: speech service")
          /\ UNCHANGED audio_duration
    /\ UNCHANGED <<uiVars, trimmed_text, bg_duration, out_dur, overlays,
                   searchCalls, downloads, renderCalls, tempFiles, raised,
                   pickVars, trimVars>>

\* app.py 223-232: pick_background_url, download_to_temp, VideoFileClip, the
\* output duration and the base layer carrying the narration
FetchBackground ==
    /\ pc = "bg"
    /\ \E resps \in PipelineAnswers :
         LET picked == pick_background_url(PEXELS_API_KEY, strip(title), strip(content),
                                           strip(topic_hint), resps)
         IN  /\ pickResult' = picked.url
             /\ searchCalls' = searchCalls + picked.calls
    /\ downloads' = downloads + 1
    /\ \/ /\ Fails("Error: background video")
          /\ UNCHANGED <<bg_duration, out_dur, overlays, tempFiles>>
       \/ /\ tempFiles' = tempFiles + 1
          /\ \E b \in BackgroundDurations :
               /\ bg_duration' = b
               /\ out_dur' = ResolveDuration(audio_duration, target_duration, b)
               /\ overlays' = << BackgroundLayer(ResolveDuration(audio_duration,
                                                                target_duration, b)) >>
          /\ pc' = "title"
          /\ UNCHANGED shown
    /\ UNCHANGED <<uiVars, trimmed_text, audio_duration, ttsCalls, renderCalls, raised,
                   pickLog, trimVars>>

\* except Exception: pass -- the step's exception ends the step, nothing else
Swallowed(step) ==
    /\ raised' = raised \cup {step}
    /\ UNCHANGED <<shown, overlays>>

\* a variant without the try/except around the title card
TitleCardStep_NoCatch ==
    /\ pc = "title"
    /\ IF add_title_card
       THEN \/ /\ Fails("Error: title card")
               /\ UNCHANGED <<overlays, raised>>
            \/ /\ overlays' = Append(overlays, TitleLayer(out_dur))
               /\ pc' = "logo"
               /\ UNCHANGED <<raised, shown>>
       ELSE /\ pc' = "logo"
            /\ UNCHANGED <<overlays, raised, shown>>
    /\ UNCHANGED <<uiVars, trimmed_text, audio_duration, bg_duration, out_dur,
                   ttsCalls, searchCalls, downloads, renderCalls, tempFiles,
                   pickVars, trimVars>>

\* app.py 235-244: the title card
TitleCardStep ==
    /\ pc = "title"
    /\ pc' = "logo"
    /\ IF add_title_card
       THEN \/ Swallowed("title")
            \/ /\ overlays' = Append(overlays, TitleLayer(out_dur))
               /\ UNCHANGED <<raised, shown>>
       ELSE UNCHANGED <<overlays, raised, shown>>
    /\ UNCHANGED <<uiVars, trimmed_text, audio_duration, bg_duration, out_dur,
                   ttsCalls, searchCalls, downloads, renderCalls, tempFiles,
                   pickVars, trimVars>>

\* app.py 247-258: the logo, written to a temporary file first
LogoStep ==
    /\ pc = "logo"
    /\ pc' = "captions"
    /\ IF logo_file
       THEN \/ /\ Swallowed("logo")
               /\ tempFiles' = tempFiles + 1
            \/ /\ overlays' = Append(overlays, LogoLayer(out_dur))
               /\ tempFiles' = tempFiles + 1
               /\ UNCHANGED <<raised, shown>>
       ELSE UNCHANGED <<overlays, raised, shown, tempFiles>>
    /\ UNCHANGED <<uiVars, trimmed_text, audio_duration, bg_duration, out_dur,
                   ttsCalls, searchCalls, downloads, renderCalls, pickVars, trimVars>>

\* app.py 261-282: the rolling captions.  Each clip is appended as soon as it
\* is made; an exception while clip number `at` is made (or before the loop,
\* when there is no clip to make) leaves the clips before it in the list
CaptionsStep ==
    /\ pc = "captions"
    /\ pc' = "music"
    /\ IF enable_captions
       THEN LET clips == CaptionClips(trimmed_text, out_dur)
            IN  \/ /\ overlays' = overlays \o clips
                   /\ UNCHANGED <<raised, shown>>
                \/ \E at \in 1..Max(1, Len(clips)) :
                     /\ overlays' = overlays \o SubSeq(clips, 1, at - 1)
                     /\ raised' = raised \cup {"captions"}
                     /\ UNCHANGED shown
       ELSE UNCHANGED <<overlays, raised, shown>>
    /\ UNCHANGED <<uiVars, trimmed_text, audio_duration, bg_duration, out_dur,
                   ttsCalls, searchCalls, downloads, renderCalls, tempFiles,
                   pickVars, trimVars>>

\* a variant that adds the music bed as a layer of its own
MusicStep_AppendsLayer ==
    /\ pc = "music"
    /\ pc' = "render"
    /\ IF bgm_mix
       THEN /\ downloads' = downloads + 1
            /\ \/ /\ Swallowed("music")
                  /\ UNCHANGED tempFiles
               \/ /\ overlays' = Append(overlays, [kind |-> "MusicBed", start |-> R(0),
                                                   duration |-> R(out_dur)])
                  /\ tempFiles' = tempFiles + 1
                  /\ UNCHANGED <<raised, shown>>
       ELSE UNCHANGED <<overlays, raised, shown, tempFiles, downloads>>
    /\ UNCHANGED <<uiVars, trimmed_text, audio_duration, bg_duration, out_dur,
                   ttsCalls, searchCalls, renderCalls, pickVars, trimVars>>

\* app.py 285-294: the music bed, downloaded, looped and mixed into the base
\* layer's audio as the step's last statement
MusicStep ==
    /\ pc = "music"
    /\ pc' = "render"
    /\ IF bgm_mix
       THEN /\ downloads' = downloads + 1
            /\ \/ /\ Swallowed("music")
                  /\ UNCHANGED tempFiles
               \/ /\ overlays' = [overlays EXCEPT ![1].audio = "narration+music"]
                  /\ tempFiles' = tempFiles + 1
                  /\ UNCHANGED <<raised, shown>>
       ELSE UNCHANGED <<overlays, raised, shown, tempFiles, downloads>>
    /\ UNCHANGED <<uiVars, trimmed_text, audio_duration, bg_duration, out_dur,
                   ttsCalls, searchCalls, renderCalls, pickVars, trimVars>>

\* app.py 296-312 and 334-337: CompositeVideoClip(overlays).write_videofile,
\* then the player and the download button
Render ==
    /\ pc = "render"
    /\ renderCalls' = renderCalls + 1
    /\ \/ /\ pc' = "done"
          /\ shown' = "video"
       \/ Fails("Error: encoder")
    /\ UNCHANGED <<uiVars, runVars, ttsCalls, searchCalls, downloads, tempFiles,
                   raised, pickVars, trimVars>>

Next ==
    \/ Generate
    \/ SynthesizeStreaming
    \/ SynthesizeFallback
    \/ FetchBackground
    \/ TitleCardStep
    \/ LogoStep
    \/ CaptionsStep
    \/ MusicStep
    \/ Render

Spec == Init /\ [][Next]_vars

-----------------------------------------------------------------------------
(* trim_to_duration on its own: applied to a text, then to its own result *)

MaxPad == 1         \* blanks before and after the text
MaxSep == 2         \* blanks between two words
MaxOver == 3        \* words beyond the budget

SliderDefault == 60

\* the widgets as the script first renders them
Untouched ==
    /\ OPENAI_API_KEY = FALSE /\ PEXELS_API_KEY = FALSE
    /\ title = <<>> /\ content = <<>> /\ topic_hint = <<>>
    /\ target_duration = SliderDefault
    /\ enable_captions = TRUE /\ add_title_card = TRUE
    /\ bgm_mix = FALSE /\ logo_file = FALSE

TrimTargets == SliderMin..SliderMax
TrimWordCounts(t) == {0, 1} \cup {max_words(t) + k : k \in (0 - 1)..MaxOver}

InitTrim ==
    /\ Untouched
    /\ NothingRun /\ NothingPicked
    /\ pc = "trim"
    /\ \E t \in TrimTargets : \E n \in TrimWordCounts(t) :
       \E lead \in 0..MaxPad, trail \in 0..MaxPad, sep \in 1..MaxSep :
         trimArg = [text |-> MkText(lead, n, sep, trail), target_sec |-> t]
    /\ trimOnce = <<>> /\ trimTwice = <<>>

ApplyTrim ==
    /\ pc = "trim"
    /\ pc' = "trimmed"
    /\ trimOnce' = trim_to_duration(trimArg.text, trimArg.target_sec)
    /\ UNCHANGED <<uiVars, runVars, effectVars, pickVars, trimArg, trimTwice>>

ApplyTrimAgain ==
    /\ pc = "trimmed"
    /\ pc' = "retrimmed"
    /\ trimTwice' = trim_to_duration(trimOnce, trimArg.target_sec)
    /\ UNCHANGED <<uiVars, runVars, effectVars, pickVars, trimArg, trimOnce>>

NextTrim == ApplyTrim \/ ApplyTrimAgain

SpecTrim == InitTrim /\ [][NextTrim]_vars

-----------------------------------------------------------------------------
(* pick_background_url on its own, against every sequence of answers *)

TextLean == <<"L","e","a","n"," ","B","a","s","i","c","s">>
TextKaizen == <<"K","a","i","z","e","n">>
TextCooking == <<"C","o","o","k","i","n","g">>
TextMining == <<"d","a","t","a"," ","m","i","n","i","n","g">>
TextSixSigma == <<"S","i","x"," ","S","i","g","m","a">>

PickTitles == { <<>>, TextLean, TextCooking }
PickContents == { TextMining, TextCooking }
PickHints == { <<>>, TextKaizen, TextSixSigma }
PickAnswers == { RespRaises, RespError, RespNoVideos, RespNoFiles, RespNoLink,
                 RespHit, RespHitOther }

InitPick ==
    /\ OPENAI_API_KEY = FALSE
    /\ PEXELS_API_KEY \in BOOLEAN
    /\ title \in PickTitles
    /\ content \in PickContents
    /\ topic_hint \in PickHints
    /\ target_duration = SliderDefault
    /\ enable_captions = TRUE /\ add_title_card = TRUE
    /\ bgm_mix = FALSE /\ logo_file = FALSE
    /\ pc = "pick"
    /\ NothingRun /\ NothingPicked /\ NothingTrimmed

\* the searches one call can issue: none without the credential, else one for
\* each non-empty query
Issued(key, t, hint) ==
    IF key THEN Len(SelectSeq(Queries(t, hint), TruthyText)) ELSE 0

PickBackground ==
    /\ pc = "pick"
    /\ pc' = "picked"
    /\ \E resps \in [1..Issued(PEXELS_API_KEY, title, topic_hint) -> PickAnswers] :
         LET picked == pick_background_url(PEXELS_API_KEY, title, content, topic_hint, resps)
         IN  /\ pickLog' = resps
             /\ pickResult' = picked.url
             /\ searchCalls' = picked.calls
    /\ UNCHANGED <<uiVars, runVars, ttsCalls, downloads, renderCalls, tempFiles,
                   raised, shown, trimVars>>

NextPick == PickBackground

SpecPick == InitPick /\ [][NextPick]_vars

-----------------------------------------------------------------------------
(* Properties of build_video's duration and layers *)

Resolved == overlays # <<>>
Assembled == pc \in {"render", "done"}
Captions(layers) == SelectSeq(layers, LAMBDA l : l.kind = "Caption")
LayersOf(kind) == SelectSeq(overlays, LAMBDA l : l.kind = kind)
End(clip) == RAdd(clip.start, clip.duration)

\* C1 as stated: with a narration of at least 30 s, 30 <= out_dur <=
\* min(target_duration, background duration), and out_dur is the narration's
\* duration when that is the smallest of the three
C1_Original ==
    (Resolved /\ audio_duration >= 300 /\ bg_duration > 0) =>
        /\ 300 <= out_dur
        /\ out_dur <= target_duration * 10 /\ out_dur <= bg_duration
        /\ (audio_duration <= target_duration * 10 /\ audio_duration <= bg_duration)
              => out_dur = audio_duration

\* C1 amended: with a narration of at least 30 s, out_dur never exceeds the
\* target or the background video, is at least 30 s whenever the background
\* video lasts 30 s (and is the background's duration when it does not), and
\* is the narration's duration when that is the smallest of the three
C1_ResolvedDuration ==
    (Resolved /\ audio_duration >= 300 /\ bg_duration > 0) =>
        /\ out_dur <= target_duration * 10 /\ out_dur <= bg_duration
        /\ bg_duration >= 300 => 300 <= out_dur
        /\ bg_duration < 300 => out_dur = bg_duration
        /\ (audio_duration <= target_duration * 10 /\ audio_duration <= bg_duration)
              => out_dur = audio_duration

C1_Witness ==
    /\ Resolved /\ audio_duration >= 300
    /\ audio_duration < target_duration * 10 /\ audio_duration < bg_duration
    /\ out_dur = audio_duration

\* overlays' keeps every layer of overlays in place; the base layer may only
\* change its audio
KeepsLayers ==
    /\ Len(overlays') >= Len(overlays)
    /\ \A i \in 2..Len(overlays) : overlays'[i] = overlays[i]
    /\ overlays'[1].kind = overlays[1].kind
    /\ overlays'[1].start = overlays[1].start
    /\ overlays'[1].duration = overlays[1].duration

FollowingStep ==
    [title |-> "logo", logo |-> "captions", captions |-> "music", music |-> "render"]

\* an optional step hands over to the next one, keeps the layers, shows nothing
StepAbsorbs ==
    pc \in OptionalSteps =>
        (pc' = FollowingStep[pc] /\ KeepsLayers /\ shown' = shown)

\* C2: an optional step, raising or not, hands over to the next step with every
\* layer accumulated so far still in the list and nothing shown to the user;
\* the renderer is then invoked, exactly once
C2_FaultTolerant ==
    /\ [][StepAbsorbs]_vars
    /\ [][pc = "render" => renderCalls' = 1]_vars
    /\ [](pc \in OptionalSteps \cup {"render"} => renderCalls = 0)
    /\ [](pc = "done" => renderCalls = 1)

C2_Witness ==
    /\ pc = "done" /\ raised = OptionalSteps /\ renderCalls = 1
    /\ Len(overlays) >= 2

\* C3 as stated: a step that raised leaves no layer of its own in the final
\* list, and a music step that raised leaves the narration unmixed
C3_Original ==
    Assembled =>
        /\ "title" \in raised => LayersOf("TitleCard") = <<>>
        /\ "logo" \in raised => LayersOf("Logo") = <<>>
        /\ "captions" \in raised => LayersOf("Caption") = <<>>
        /\ "music" \in raised => overlays[1].audio = "narration"

\* C4 as stated: the caption clips are contiguous from 0 and none extends
\* past out_dur
C4_Original ==
    Assembled =>
        LET caps == Captions(overlays)
        IN  /\ caps # <<>> => REq(caps[1].start, R(0))
            /\ \A i \in 1..(Len(caps) - 1) : REq(caps[i + 1].start, End(caps[i]))
            /\ \A i \in 1..Len(caps) : RLe(End(caps[i]), R(out_dur))

\* C7 as stated: the speech service is called at most once in a request, and
\* when speech synthesis fails nothing is fetched or encoded
C7_Original ==
    /\ ttsCalls <= 1
    /\ (pc = "failed" /\ ~Resolved /\ downloads = 0) => renderCalls = 0
    /\ (pc = "failed" /\ shown \in {"Error: speech service",
                                     "Error: TTS failed: empty response body"})
          => downloads = 0 /\ searchCalls = 0 /\ renderCalls = 0

\* C8: without the speech credential, or with an empty title or body, the
\* request ends stopped or disabled: no collaborator is called and no
\* temporary file is created
C8_PreconditionFirst ==
    (~OPENAI_API_KEY \/ title = <<>> \/ content = <<>>) =>
        /\ pc \in {"idle", "disabled", "stopped"}
        /\ ttsCalls = 0 /\ searchCalls = 0 /\ downloads = 0 /\ renderCalls = 0
        /\ tempFiles = 0 /\ overlays = <<>>
        /\ pc = "stopped" => shown = "OPENAI_API_KEY missing. Add it in Streamlit secrets."
        /\ pc = "disabled" => shown = ""

C8_Witness ==
    /\ pc = "stopped" /\ ~OPENAI_API_KEY /\ title # <<>> /\ content # <<>>
    /\ shown = "OPENAI_API_KEY missing. Add it in Streamlit secrets."

\* C9: caption k holds exactly the words [k*wordsPerSegment,
\* (k+1)*wordsPerSegment) of the trimmed narration, so the captions in order
\* spell a prefix of it; a caption is followed by another only while its end
\* is before out_dur, and the last one ends the text or reaches out_dur
C9_CaptionsArePrefix ==
    (pc \in {"music", "render", "done"} /\ enable_captions) =>
        LET words == split(trimmed_text)
            caps == Captions(overlays)
            perSeg == Max(6, Max(1, Len(words)) \div Max(3, out_dur \div 25))
        IN  /\ \A k \in 1..Len(caps) :
                  /\ (k - 1) * perSeg < Len(words)
                  /\ caps[k].text =
                        join(SubSeq(words, (k - 1) * perSeg + 1, Min(k * perSeg, Len(words))))
            /\ \A k \in 1..(Len(caps) - 1) : RLt(End(caps[k]), R(out_dur))
            /\ "captions" \notin raised =>
                  IF caps = <<>> THEN words = <<>>
                  ELSE \/ Len(caps) * perSeg >= Len(words)
                       \/ RLe(R(out_dur), End(caps[Len(caps)]))

\* the narration was cut, and the captions stop at out_dur with words left over
C9_Witness ==
    /\ pc = "done" /\ enable_captions /\ "captions" \notin raised
    /\ trimmed_text # <<>> /\ trimmed_text[Len(trimmed_text)] = Ellipsis
    /\ Len(Captions(overlays)) >= 2
    /\ Len(Captions(overlays)) * words_per_seg(split(trimmed_text), out_dur)
          < Len(split(trimmed_text))

\* the music step changes no layer but the base layer, and not its kind
MusicKeepsLayers ==
    pc = "music" =>
        /\ Len(overlays') = Len(overlays)
        /\ \A i \in 1..Len(overlays) : overlays'[i].kind = overlays[i].kind
        /\ \A i \in 2..Len(overlays) : overlays'[i] = overlays[i]

\* C10: the first layer is the background video carrying the narration, no
\* other layer is a background video, a disabled option has no layer, and
\* the music step changes the base layer's audio and nothing else
C10_BaseLayerFirst ==
    /\ [](Resolved =>
            /\ overlays[1].kind = "BackgroundVideo"
            /\ overlays[1].audio \in {"narration", "narration+music"}
            /\ overlays[1].audio = "narration+music" => bgm_mix
            /\ \A i \in 2..Len(overlays) :
                  overlays[i].kind \in {"TitleCard", "Logo", "Caption"}
            /\ ~add_title_card => LayersOf("TitleCard") = <<>>
            /\ ~logo_file => LayersOf("Logo") = <<>>
            /\ ~enable_captions => LayersOf("Caption") = <<>>
            /\ (~add_title_card /\ ~logo_file /\ ~enable_captions) => Len(overlays) = 1)
    /\ [][MusicKeepsLayers]_vars

C10_Witness ==
    /\ pc = "done" /\ ~add_title_card /\ ~logo_file /\ ~enable_captions /\ bgm_mix
    /\ Len(overlays) = 1 /\ overlays[1].audio = "narration+music"

-----------------------------------------------------------------------------
(* Properties of trim_to_duration *)

Budget(target_sec) == Max(35, (22 * target_sec) \div 10)

\* text is core with blanks before and after it, and core has none at its ends
StrippedOf(core, text) ==
    /\ \E i \in 0..Len(text) : \E j \in 0..Len(text) : text = Blanks(i) \o core \o Blanks(j)
    /\ core # <<>> => (core[1] # " " /\ core[Len(core)] # " ")

\* C5 as stated: the result has at most max(35, floor(2.2 * target_sec)) words,
\* a text within that budget is returned unchanged, and trimming is idempotent
C5_Original ==
    pc = "retrimmed" =>
        /\ Len(split(trimOnce)) <= Budget(trimArg.target_sec)
        /\ Len(split(trimArg.text)) <= Budget(trimArg.target_sec)
              => trimOnce = trimArg.text
        /\ trimTwice = trimOnce

\* C5 amended: the result has at most max(35, floor(2.2 * target_sec)) words,
\* a text within that budget is returned with the whitespace around it
\* removed (unchanged when it has none), and trimming is idempotent
C5_TrimBudget ==
    pc = "retrimmed" =>
        /\ Len(split(trimOnce)) <= Budget(trimArg.target_sec)
        /\ Len(split(trimArg.text)) <= Budget(trimArg.target_sec)
              => StrippedOf(trimOnce, trimArg.text)
        /\ trimTwice = trimOnce

\* a padded text over the budget was cut to the budget, and cutting again changed nothing
C5_Witness ==
    /\ pc = "retrimmed"
    /\ trimArg.text # <<>> /\ trimArg.text[1] = " "
    /\ Len(split(trimArg.text)) > Budget(trimArg.target_sec)
    /\ Len(split(trimOnce)) = Budget(trimArg.target_sec)
    /\ trimOnce[Len(trimOnce)] = Ellipsis
    /\ trimTwice = trimOnce

-----------------------------------------------------------------------------
(* Properties of pick_background_url *)

\* the link a search that got this answer yields: the first widest file of
\* the first video
LinkOf(resp) ==
    IF resp = RespHit THEN "https://videos.pexels.com/hd.mp4"
    ELSE IF resp = RespHitOther THEN "https://videos.pexels.com/other.mp4"
    ELSE None

FirstHit == CHOOSE k \in 1..Len(pickLog) :
                /\ LinkOf(pickLog[k]) # None
                /\ \A j \in 1..(k - 1) : LinkOf(pickLog[j]) = None

CuratedFor(text) ==
    IF \E k \in LeanKeywords : Contains(lower(text), k) THEN CURATED_BG.lean[1]
    ELSE IF \E k \in AiKeywords : Contains(lower(text), k) THEN CURATED_BG.ai[1]
    ELSE CURATED_BG.default[1]

\* C6: the result is a non-empty URL; with a credential and some query that
\* hits, it is the hit of the first such query in the order topic hint, title,
\* generic queries; otherwise it is the first curated entry of the matched
\* groups (lean/process ahead of ai), or the default entry
C6_AlwaysPicks ==
    pc = "picked" =>
        /\ pickResult # None /\ pickResult # ""
        /\ IF PEXELS_API_KEY /\ \E k \in 1..Len(pickLog) : LinkOf(pickLog[k]) # None
           THEN /\ pickResult = LinkOf(pickLog[FirstHit])
                /\ searchCalls = FirstHit
           ELSE /\ pickResult = CuratedFor(IF topic_hint # <<>> THEN topic_hint
                                           ELSE IF title # <<>> THEN title ELSE content)
                /\ searchCalls = Len(pickLog)
        /\ ~PEXELS_API_KEY => searchCalls = 0

\* the first search failed and the second one hit
C6_Witness ==
    /\ pc = "picked" /\ PEXELS_API_KEY
    /\ Len(pickLog) >= 2 /\ pickLog[1] = RespRaises /\ pickLog[2] = RespHitOther
    /\ pickResult = "https://videos.pexels.com/other.mp4"
    /\ searchCalls = 2

====
